---- MODULE Spec2Model ----
(***************************************************************************)
(* Lifecycle orchestration of per-customer media-server containers:        *)
(* the request handlers of backend/src/routes/containers.ts, admin.ts and  *)
(* billing.ts, the Stripe and Clerk webhooks of webhooks.ts, the           *)
(* DockerService runtime adapter and the HetznerService storage/mount      *)
(* manager.  Every `await` of a handler is a point where another request   *)
(* may run, so a handler is a sequence of steps, one per awaited call, and *)
(* requests interleave at those points.  Spec has two customers and the    *)
(* container and admin routes; AccountSpec follows one customer through    *)
(* more requests, with the billing route and the webhooks; ProvisionSpec   *)
(* has the create route with every media server type a request may name,   *)
(* beside the steps of scripts/cleanup-customer.sh.                        *)
(***************************************************************************)
EXTENDS Naturals, FiniteSets, Sequences, TLC

\* ----------------------------------------------------------------- bounds
\* number of requests that arrive in one behaviour of the container and
\* admin routes
MaxReq == 2
\* number of requests and events that arrive in one behaviour of one
\* customer's requests, billing events and account events
MaxEvents == 4

\* the requests in flight at one time
Procs == {"r1", "r2"}

Customers == {"c1", "c2"}
Slugs == {"movies", "tv"}
Null == "null"

\* `media-${userId}-${subdomainSlug}`; also stands for the record's id,
\* which the datastore generates once per record
ContainerName(u, s) == <<u, s>>
Names == {ContainerName(u, s) : u \in Customers, s \in Slugs}

\* enum ContainerStatus
ContainerStatus == {"CREATING", "RUNNING", "STOPPED", "ERROR", "SUSPENDED"}

NoRec == [userId |-> Null, subdomainSlug |-> Null, status |-> Null,
          dockerContainerId |-> Null, externalPort |-> Null,
          hetznerStorageBox |-> Null, mountPath |-> Null]

\* enum SubscriptionStatus
SubscriptionStatus == {"TRIAL", "ACTIVE", "PAST_DUE", "CANCELED", "UNPAID"}

\* model User: the row the auth middleware creates at a customer's first
\* request, subscriptionStatus @default(TRIAL)
\* the null of stripeCustomerId String? and stripeSubscriptionId String?
NoId == <<>>
NewUser == [subscriptionStatus |-> "TRIAL", stripeCustomerId |-> NoId,
            stripeSubscriptionId |-> NoId]
NoUser == [subscriptionStatus |-> Null, stripeCustomerId |-> NoId,
           stripeSubscriptionId |-> NoId]

\* subscription.id of the i-th subscription Stripe created for customer u
SubscriptionId(u, i) == <<"sub", u, i>>
\* customer.id of the Stripe customer of u
StripeCustomerId(u) == <<"cus", u>>

VARIABLES
    db,          \* containers table: id -> record, NoRec when no such row
    docker,      \* container runtime: name -> absent | created | running | exited
    storage,     \* customers whose remote directory /media-storage/<id> exists
    mounts,      \* number of sshfs mounts bound on /mnt/hetzner-storage/<id>
    req,         \* the requests: position in the handler and its local variables
    arrived,     \* number of requests received so far
    users,       \* users table: id -> record, NoUser when no such row
    stripe,      \* Stripe: number of subscriptions created for each customer
    limit,       \* number of requests that arrive in one behaviour
    containerConfig, \* container runtime: name -> image and published port
    dirs,        \* customers whose /mnt/hetzner-storage/<id> exists with its content
    backups      \* customers with an archive in /opt/media-platform/backups

vars == <<db, docker, storage, mounts, req, arrived, users, stripe, limit,
          containerConfig, dirs, backups>>

\* a handler's container before its findFirst or create has answered
NoContainer == <<>>

IdleReq == [pc |-> "idle", kind |-> Null, seq |-> 0, user |-> Null, slug |-> Null,
            type |-> Null,
            storage |-> Null, mount |-> Null, container |-> NoContainer,
            dockerResult |-> Null, todo |-> {}, sub |-> Null, status |-> Null,
            liveStatus |-> Null, usedBytes |-> 0, details |-> Null,
            err |-> Null, resp |-> 0]

\* the configuration of a container the runtime does not have
NoConfig == [Image |-> Null, ExposedPort |-> Null, HostPort |-> Null]

\* the state after start-up, every customer signed in
Started ==
    /\ db = [n \in Names |-> NoRec]
    /\ docker = [n \in Names |-> "absent"]
    /\ storage = {}
    /\ mounts = [u \in Customers |-> 0]
    /\ req = [p \in Procs |-> IdleReq]
    /\ arrived = 0
    /\ users = [u \in Customers |-> NewUser]
    /\ stripe = [u \in Customers |-> 0]
    /\ containerConfig = [n \in Names |-> NoConfig]
    /\ dirs = {}
    /\ backups = {}

Init == Started /\ limit = MaxReq

\* ------------------------------------------------------------ datastore
Rows == {n \in Names : db[n] # NoRec}
RowsOfUser(u) == {n \in Rows : db[n].userId = u}
RowsOfSlug(s) == {n \in Rows : db[n].subdomainSlug = s}

\* @unique on containerName and on subdomainSlug
UniqueViolation(u, s) ==
    \/ db[ContainerName(u, s)] # NoRec
    \/ RowsOfSlug(s) # {}

\* --------------------------------------------------------- the responses
\* res.status(code).json(...) ends the handler and its locals go out of scope
Respond(p, code, e) ==
    [req EXCEPT ![p] = [IdleReq EXCEPT !.pc = "done", !.kind = req[p].kind,
                                       !.user = req[p].user,
                                       !.resp = code, !.err = e]]

Goto(p, label) == [req EXCEPT ![p].pc = label]

\* ------------------------------------------------------ container runtime
\* container.start(): 204 from created/exited, 304 and 404 are rejections
CanStart(n) == docker[n] \in {"created", "exited"}
\* container.stop(): 204 from running, 304 and 404 are rejections
CanStop(n) == docker[n] = "running"
\* NetworkSettings.Ports['8096/tcp'][0].HostPort: PortBindings HostPort '0'
\* makes the runtime pick a free host port for every running container
HostPort(n) == IF docker[n] = "running" THEN <<"port", n>> ELSE Null

\* ---------------------------------------------------------------- arrival
Free(p) == req[p].pc \in {"idle", "done"}

\* a request is received: it takes a free slot and the next arrival number
Arrives(p) ==
    /\ arrived < limit
    /\ Free(p)
    /\ p = "r2" => ~Free("r1")

\* the requests in flight
InFlight == {q \in Procs : ~Free(q)}

\* the handler's state at its first awaited call; seq orders the requests in
\* flight by arrival
Arrival(p, k, u) ==
    [IdleReq EXCEPT !.kind = k, !.user = u,
                    !.seq = IF InFlight = {} THEN 1
                            ELSE 1 + (CHOOSE m \in {req[q].seq : q \in InFlight} :
                                        \A q \in InFlight : req[q].seq <= m)]

\* the response of a handler that returns at its first awaited call
Reject(p, k, u, code, e) ==
    [req EXCEPT ![p] = [IdleReq EXCEPT !.pc = "done", !.kind = k, !.user = u,
                                       !.resp = code, !.err = e]]

\* ------------------------------------------------ POST /  (create container)
\* ['JELLYFIN', 'PLEX', 'EMBY']
MediaServerTypes == {"JELLYFIN", "PLEX", "EMBY"}

\* the mediaServerType values a request body carries: the three types and one
\* that is none of them
RequestedTypes == MediaServerTypes \cup {"KODI"}

\* a handler that takes every mediaServerType
AnyType(t) == TRUE

\* ['JELLYFIN', 'PLEX', 'EMBY'].includes(mediaServerType)
ValidType(t) == t \in MediaServerTypes

\* imageMap[config.mediaServerType]
ImageMap(t) ==
    CASE t = "JELLYFIN" -> "jellyfin/jellyfin:latest"
      [] t = "PLEX" -> "plexinc/pms-docker:latest"
      [] t = "EMBY" -> "emby/embyserver:latest"
      [] OTHER -> Null

\* the port the media server of each type listens on, as the provisioning
\* script publishes it
InternalPort(t) == IF t = "PLEX" THEN "32400/tcp" ELSE "8096/tcp"

\* ExposedPorts and PortBindings of containerConfig: '8096/tcp' for every type
ExposedPort(t) == "8096/tcp"

\* PortBindings HostPort '0': the runtime picks a free host port
AutoAssign == "0"

\* the 400 of the input validation, which answers the mediaServerType of
\* req.body, then findFirst({ userId }) of an authenticated request
CreateCheckUser(p, u, s, t) ==
    /\ Arrives(p)
    /\ users[u] # NoUser
    /\ arrived' = arrived + 1
    /\ LET r == [Arrival(p, "create", u) EXCEPT !.slug = s, !.type = t] IN
       \/ /\ ~ValidType(t)
          /\ req' = [Reject(p, "create", u, 400, "InvalidMediaServerType")
                        EXCEPT ![p].type = t]
       \/ /\ ValidType(t)
          /\ RowsOfUser(u) = {}
          /\ req' = [req EXCEPT ![p] = [r EXCEPT !.pc = "c_checkSlug"]]
       \/ /\ ValidType(t)
          /\ RowsOfUser(u) # {}
          /\ req' = Reject(p, "create", u, 409, "UserHasContainer")
       \/ /\ ValidType(t)
          /\ req' = Reject(p, "create", u, 500, "Datastore")
    /\ UNCHANGED <<db, docker, storage, mounts, users, stripe, limit, containerConfig, dirs, backups>>

\* findFirst({ subdomainSlug })
CreateCheckSlug(p) ==
    /\ req[p].pc = "c_checkSlug"
    /\ \/ /\ RowsOfSlug(req[p].slug) = {}
          /\ req' = Goto(p, "c_storage")
       \/ /\ RowsOfSlug(req[p].slug) # {}
          /\ req' = Respond(p, 409, "SubdomainTaken")
       \/ req' = Respond(p, 500, "Datastore")
    /\ UNCHANGED <<db, docker, storage, mounts, arrived, users, stripe, limit, containerConfig, dirs, backups>>

\* exit code of `mkdir /media-storage/<u>` on the storage box: the
\* directory exists already
MkdirExit(u) == IF u \in storage THEN 1 ELSE 0

\* exit code of `mkdir -p /media-storage/<u>` on the storage box
MkdirParentsExit(u) == 0

\* hetznerService.createCustomerStorage: mkdir -p over ssh; a non-zero exit
\* code and a connection error are rejections; the returned paths are
\* /media-storage/<u> and /mnt/hetzner-storage/<u>
CreateStorageStep(p) ==
    /\ req[p].pc = "c_storage"
    /\ \/ /\ MkdirParentsExit(req[p].user) = 0
          /\ storage' = storage \cup {req[p].user}
          /\ req' = [req EXCEPT ![p].pc = "c_mount", ![p].storage = req[p].user]
       \/ /\ MkdirParentsExit(req[p].user) # 0
          /\ req' = Respond(p, 500, "StorageCommand")
          /\ UNCHANGED storage
       \/ /\ req' = Respond(p, 500, "Storage")
          /\ UNCHANGED storage
    /\ UNCHANGED <<db, docker, mounts, arrived, users, stripe, limit, containerConfig, dirs, backups>>

\* a handler that logs a rejected mount and goes on to the next step
MountIgnored(p) == [req EXCEPT ![p].pc = "c_dbCreate"]

\* the handler's reaction to a rejected mountCustomerStorage: the outer catch
MountRejected(p) == Respond(p, 500, "Mount")

\* hetznerService.mountCustomerStorage: mkdir -p of the local path (rejected,
\* or the directory exists afterwards), then sshfs; sshfs does not
\* look whether the path is bound already: it is rejected (mountpoint not
\* empty) or binds one more mount on top of the path
CreateMountStep(p) ==
    /\ req[p].pc = "c_mount"
    /\ \/ /\ mounts' = [mounts EXCEPT ![req[p].user] = @ + 1]
          /\ dirs' = dirs \cup {req[p].user}
          /\ req' = [req EXCEPT ![p].pc = "c_dbCreate", ![p].mount = req[p].user]
       \/ /\ req' = MountRejected(p)
          /\ dirs' = dirs \cup {req[p].user}
          /\ UNCHANGED mounts
       \/ /\ req' = MountRejected(p)
          /\ UNCHANGED <<mounts, dirs>>
    /\ UNCHANGED <<db, docker, storage, arrived, users, stripe, limit, containerConfig, backups>>

\* prisma.container.create with status CREATING; userId references a users row
CreateDbCreate(p) ==
    /\ req[p].pc = "c_dbCreate"
    /\ LET n == ContainerName(req[p].user, req[p].slug) IN
       \/ /\ ~UniqueViolation(req[p].user, req[p].slug)
          /\ users[req[p].user] # NoUser
          /\ db' = [db EXCEPT ![n] =
                       [userId |-> req[p].user, subdomainSlug |-> req[p].slug,
                        status |-> "CREATING", dockerContainerId |-> Null,
                        externalPort |-> Null,
                        hetznerStorageBox |-> req[p].storage,
                        mountPath |-> req[p].mount]]
          /\ req' = [req EXCEPT ![p].pc = "c_dockerCreate",
                                ![p].container = n]
       \/ /\ UniqueViolation(req[p].user, req[p].slug)
          /\ req' = Respond(p, 500, "Unique")
          /\ UNCHANGED db
       \/ /\ req' = Respond(p, 500, "Datastore")
          /\ UNCHANGED db
    /\ UNCHANGED <<docker, storage, mounts, arrived, users, stripe, limit, containerConfig, dirs, backups>>

\* a rejection inside the inner try: the inner catch runs next
Caught(p, e) == [req EXCEPT ![p].pc = "c_updateError", ![p].err = e]

\* createMediaServerContainer: imageMap, pullImageIfNeeded,
\* docker.createContainer(containerConfig)
CreateDockerCreate(p) ==
    /\ req[p].pc = "c_dockerCreate"
    /\ LET n == ContainerName(req[p].user, req[p].slug) IN
       \/ /\ ImageMap(req[p].type) # Null
          /\ docker[n] = "absent"
          /\ docker' = [docker EXCEPT ![n] = "created"]
          /\ containerConfig' = [containerConfig EXCEPT ![n] =
                                   [Image |-> ImageMap(req[p].type),
                                    ExposedPort |-> ExposedPort(req[p].type),
                                    HostPort |-> AutoAssign]]
          /\ req' = Goto(p, "c_dockerStart")
       \/ /\ ImageMap(req[p].type) = Null
          /\ req' = Caught(p, "UnsupportedType")
          /\ UNCHANGED <<docker, containerConfig>>
       \/ /\ ImageMap(req[p].type) # Null
          /\ req' = Caught(p, "ImagePull")
          /\ UNCHANGED <<docker, containerConfig>>
       \/ /\ ImageMap(req[p].type) # Null
          /\ req' = Caught(p, "RuntimeCreate")
          /\ UNCHANGED <<docker, containerConfig>>
    /\ UNCHANGED <<db, storage, mounts, arrived, users, stripe, limit, dirs, backups>>

\* createMediaServerContainer: container.start()
CreateDockerStart(p) ==
    /\ req[p].pc = "c_dockerStart"
    /\ LET n == ContainerName(req[p].user, req[p].slug) IN
       \/ /\ CanStart(n)
          /\ docker' = [docker EXCEPT ![n] = "running"]
          /\ req' = Goto(p, "c_dockerInspect")
       \/ /\ req' = Caught(p, "RuntimeStart")
          /\ UNCHANGED docker
    /\ UNCHANGED <<db, storage, mounts, arrived, users, stripe, limit, containerConfig, dirs, backups>>

\* createMediaServerContainer: container.inspect() and the returned object
CreateDockerInspect(p) ==
    /\ req[p].pc = "c_dockerInspect"
    /\ LET n == ContainerName(req[p].user, req[p].slug) IN
       \/ /\ docker[n] # "absent"
          /\ req' = [req EXCEPT ![p].pc = "c_updateRunning",
                        ![p].dockerResult =
                            [dockerContainerId |-> <<"id", n>>,
                             externalPort |-> HostPort(n)]]
       \/ req' = Caught(p, "RuntimeInspect")
    /\ UNCHANGED <<db, docker, storage, mounts, arrived, users, stripe, limit, containerConfig, dirs, backups>>

\* prisma.container.update: dockerContainerId, externalPort, status RUNNING
CreateUpdateRunning(p) ==
    /\ req[p].pc = "c_updateRunning"
    /\ LET n == req[p].container IN
       \/ /\ db[n] # NoRec
          /\ db' = [db EXCEPT
                       ![n].dockerContainerId = req[p].dockerResult.dockerContainerId,
                       ![n].externalPort = req[p].dockerResult.externalPort,
                       ![n].status = "RUNNING"]
          /\ req' = Goto(p, "c_log")
       \/ /\ req' = Caught(p, "Datastore")
          /\ UNCHANGED db
    /\ UNCHANGED <<docker, storage, mounts, arrived, users, stripe, limit, containerConfig, dirs, backups>>

\* prisma.activityLog.create, then res.status(201)
CreateLog(p) ==
    /\ req[p].pc = "c_log"
    /\ \/ req' = Respond(p, 201, Null)
       \/ req' = Caught(p, "ActivityLog")
    /\ UNCHANGED <<db, docker, storage, mounts, arrived, users, stripe, limit, containerConfig, dirs, backups>>

\* inner catch: prisma.container.update status ERROR, then res.status(500)
\* with details: dockerError.message
CreateUpdateError(p) ==
    /\ req[p].pc = "c_updateError"
    /\ LET n == req[p].container IN
       \/ /\ db[n] # NoRec
          /\ db' = [db EXCEPT ![n].status = "ERROR"]
          /\ req' = [Respond(p, 500, req[p].err) EXCEPT ![p].details = req[p].err]
       \/ /\ req' = Respond(p, 500, "Datastore")
          /\ UNCHANGED db
    /\ UNCHANGED <<docker, storage, mounts, arrived, users, stripe, limit, containerConfig, dirs, backups>>

\* ------------- POST /:id/start, POST /:id/stop, GET /:id and GET /:id/logs
\* a lookup by the id alone
FoundById(k, u, n) == db[n] # NoRec

\* findFirst({ id, userId }) of the customer's start, stop, status and logs,
\* findUnique({ id }) of the admin's restart
Owned(k, u, n) == db[n] # NoRec /\ (k = "restart" \/ db[n].userId = u)

\* the first awaited call after the lookup; GET /:id asks the runtime only
\* for a record with a dockerContainerId
FirstStep(k, n) ==
    CASE k = "status" -> IF db[n].dockerContainerId # Null THEN "g_status"
                         ELSE "g_usage"
      [] k = "logs" -> "l_logs"
      [] OTHER -> "docker"

\* the 404 answers the id of req.params
Find(p, k, u, n) ==
    /\ Arrives(p)
    /\ arrived' = arrived + 1
    /\ k \in {"start", "stop", "restart", "status", "logs"}
    /\ LET r == Arrival(p, k, u) IN
       \/ /\ Owned(k, u, n)
          /\ req' = [req EXCEPT ![p] = [r EXCEPT !.pc = FirstStep(k, n),
                                                 !.container = n]]
       \/ /\ ~Owned(k, u, n)
          /\ req' = [Reject(p, k, u, 404, "NotFound") EXCEPT ![p].container = n]
       \/ req' = Reject(p, k, u, 500, "Datastore")
    /\ UNCHANGED <<db, docker, storage, mounts, users, stripe, limit, containerConfig, dirs, backups>>

\* dockerService.startContainer(container.containerName)
StartDocker(p) ==
    /\ req[p].pc = "docker"
    /\ req[p].kind = "start"
    /\ LET n == req[p].container IN
       \/ /\ CanStart(n)
          /\ docker' = [docker EXCEPT ![n] = "running"]
          /\ req' = Goto(p, "update")
       \/ /\ req' = Respond(p, 500, "RuntimeStart")
          /\ UNCHANGED docker
    /\ UNCHANGED <<db, storage, mounts, arrived, users, stripe, limit, containerConfig, dirs, backups>>

\* dockerService.stopContainer(container.containerName)
StopDocker(p) ==
    /\ req[p].pc = "docker"
    /\ req[p].kind = "stop"
    /\ LET n == req[p].container IN
       \/ /\ CanStop(n)
          /\ docker' = [docker EXCEPT ![n] = "exited"]
          /\ req' = Goto(p, "update")
       \/ /\ req' = Respond(p, 500, "RuntimeStop")
          /\ UNCHANGED docker
    /\ UNCHANGED <<db, storage, mounts, arrived, users, stripe, limit, containerConfig, dirs, backups>>

\* admin restart: dockerService.stopContainer(container.containerName)
RestartStop(p) ==
    /\ req[p].pc = "docker"
    /\ req[p].kind = "restart"
    /\ LET n == req[p].container IN
       \/ /\ CanStop(n)
          /\ docker' = [docker EXCEPT ![n] = "exited"]
          /\ req' = Goto(p, "r_start")
       \/ /\ req' = Respond(p, 500, "RuntimeStop")
          /\ UNCHANGED docker
    /\ UNCHANGED <<db, storage, mounts, arrived, users, stripe, limit, containerConfig, dirs, backups>>

\* admin restart: dockerService.startContainer(container.containerName)
RestartStart(p) ==
    /\ req[p].pc = "r_start"
    /\ LET n == req[p].container IN
       \/ /\ CanStart(n)
          /\ docker' = [docker EXCEPT ![n] = "running"]
          /\ req' = Goto(p, "update")
       \/ /\ req' = Respond(p, 500, "RuntimeStart")
          /\ UNCHANGED docker
    /\ UNCHANGED <<db, storage, mounts, arrived, users, stripe, limit, containerConfig, dirs, backups>>

\* the status the handler persists after its runtime calls
StatusWritten(k) == IF k = "stop" THEN "STOPPED" ELSE "RUNNING"

\* prisma.container.update({ where: { id }, data: { status, lastHealthCheck } })
UpdateStatus(p) ==
    /\ req[p].pc = "update"
    /\ LET n == req[p].container IN
       \/ /\ db[n] # NoRec
          /\ db' = [db EXCEPT ![n].status = StatusWritten(req[p].kind)]
          /\ req' = Goto(p, "log")
       \/ /\ req' = Respond(p, 500, "Datastore")
          /\ UNCHANGED db
    /\ UNCHANGED <<docker, storage, mounts, arrived, users, stripe, limit, containerConfig, dirs, backups>>

\* prisma.activityLog.create, then res.json({ success: true })
Log(p) ==
    /\ req[p].pc = "log"
    /\ \/ req' = Respond(p, 200, Null)
       \/ req' = Respond(p, 500, "ActivityLog")
    /\ UNCHANGED <<db, docker, storage, mounts, arrived, users, stripe, limit, containerConfig, dirs, backups>>

\* --------------------------------------------------- GET /:id and GET /:id/logs
\* getContainerStatus: container.inspect(); every rejection, the 404 of an
\* absent container and an unreachable daemon alike, is caught and gives null
GetStatus(p) ==
    /\ req[p].pc = "g_status"
    /\ LET n == req[p].container IN
       \/ /\ docker[n] # "absent"
          /\ req' = [req EXCEPT ![p].pc = "g_usage", ![p].liveStatus = docker[n]]
       \/ req' = [req EXCEPT ![p].pc = "g_usage", ![p].liveStatus = Null]
    /\ UNCHANGED <<db, docker, storage, mounts, arrived, users, stripe, limit, containerConfig, dirs, backups>>

\* exit code of `du -sb /media-storage/<u>` on the storage box
DuExit(u) == IF u \in storage THEN 0 ELSE 1

\* parseInt of the first column of the output of du -sb
DirSizes == {4096}

\* res.json({ ...container, liveStatus, storageUsage })
StatusAnswer(p, bytes) == [Respond(p, 200, Null) EXCEPT ![p].usedBytes = bytes]

\* a getStorageUsage that rethrows a rejected du
UsageRethrown(p) == Respond(p, 500, "Storage")

\* the catch of getStorageUsage: usedBytes 0, usedGB 0
UsageRejected(p) == StatusAnswer(p, 0)

\* getStorageUsage: du -sb over ssh, then res.json
GetUsage(p) ==
    /\ req[p].pc = "g_usage"
    /\ \/ /\ DuExit(req[p].user) = 0
          /\ \E b \in DirSizes : req' = StatusAnswer(p, b)
       \/ /\ DuExit(req[p].user) # 0
          /\ req' = UsageRejected(p)
       \/ req' = UsageRejected(p)
    /\ UNCHANGED <<db, docker, storage, mounts, arrived, users, stripe, limit, containerConfig, dirs, backups>>

\* getContainerLogs: container.logs(), a rejection is rethrown
GetLogs(p) ==
    /\ req[p].pc = "l_logs"
    /\ \/ /\ docker[req[p].container] # "absent"
          /\ req' = Respond(p, 200, Null)
       \/ req' = Respond(p, 500, "RuntimeLogs")
    /\ UNCHANGED <<db, docker, storage, mounts, arrived, users, stripe, limit, containerConfig, dirs, backups>>

\* ------------------------------------------- POST /users/:id/suspend (admin)
\* after one container of the loop: the next one, or the user update
NextOf(p, rest) ==
    [req EXCEPT ![p].pc = IF rest = {} THEN "u_user" ELSE "u_stop",
                ![p].todo = rest, ![p].container = NoContainer]

\* findUnique({ id, include: { containers: true } })
SuspendFind(p, u) ==
    /\ Arrives(p)
    /\ arrived' = arrived + 1
    /\ LET r == Arrival(p, "suspend", u) IN
       \/ /\ users[u] # NoUser
          /\ req' = [req EXCEPT ![p] =
                  [r EXCEPT !.pc = IF RowsOfUser(u) = {} THEN "u_user" ELSE "u_stop",
                            !.todo = RowsOfUser(u)]]
       \/ /\ users[u] = NoUser
          /\ req' = Reject(p, "suspend", u, 404, "NotFound")
       \/ req' = Reject(p, "suspend", u, 500, "Datastore")
    /\ UNCHANGED <<db, docker, storage, mounts, users, stripe, limit, containerConfig, dirs, backups>>

\* for (const container of user.containers): dockerService.stopContainer;
\* a rejection is caught and logged, and the loop goes on
SuspendStop(p) ==
    /\ req[p].pc = "u_stop"
    /\ \E n \in req[p].todo :
        \/ /\ CanStop(n)
           /\ docker' = [docker EXCEPT ![n] = "exited"]
           /\ req' = [req EXCEPT ![p].pc = "u_update", ![p].container = n]
        \/ /\ req' = NextOf(p, req[p].todo \ {n})
           /\ UNCHANGED docker
    /\ UNCHANGED <<db, storage, mounts, arrived, users, stripe, limit, containerConfig, dirs, backups>>

\* prisma.container.update({ data: { status: 'SUSPENDED' } }) in the same try
SuspendUpdate(p) ==
    /\ req[p].pc = "u_update"
    /\ LET n == req[p].container IN
       \/ /\ db[n] # NoRec
          /\ db' = [db EXCEPT ![n].status = "SUSPENDED"]
          /\ req' = NextOf(p, req[p].todo \ {n})
       \/ /\ req' = NextOf(p, req[p].todo \ {n})
          /\ UNCHANGED db
    /\ UNCHANGED <<docker, storage, mounts, arrived, users, stripe, limit, containerConfig, dirs, backups>>

\* prisma.user.update({ data: { subscriptionStatus: 'CANCELED' } })
SuspendUserUpdate(p) ==
    /\ req[p].pc = "u_user"
    /\ \/ /\ users[req[p].user] # NoUser
          /\ users' = [users EXCEPT ![req[p].user].subscriptionStatus = "CANCELED"]
          /\ req' = Goto(p, "log")
       \/ /\ req' = Respond(p, 500, "Datastore")
          /\ UNCHANGED users
    /\ UNCHANGED <<db, docker, storage, mounts, arrived, stripe, limit, containerConfig, dirs, backups>>

\* ------------------------------------------------ POST /subscribe (billing)
\* findUnique({ id }) of an authenticated request; 409 for an active subscription
SubscribeFind(p, u) ==
    /\ Arrives(p)
    /\ users[u] # NoUser
    /\ arrived' = arrived + 1
    /\ LET r == Arrival(p, "subscribe", u) IN
       \/ /\ users[u].subscriptionStatus # "ACTIVE"
          /\ req' = [req EXCEPT ![p] =
                     [r EXCEPT !.pc = IF users[u].stripeCustomerId = NoId
                                      THEN "b_customer" ELSE "b_stripe"]]
       \/ /\ users[u].subscriptionStatus = "ACTIVE"
          /\ req' = Reject(p, "subscribe", u, 409, "ActiveSubscription")
       \/ req' = Reject(p, "subscribe", u, 500, "Datastore")
    /\ UNCHANGED <<db, docker, storage, mounts, users, stripe, limit, containerConfig, dirs, backups>>

\* stripe.customers.create, then prisma.user.update({ stripeCustomerId })
SubscribeCustomer(p) ==
    /\ req[p].pc = "b_customer"
    /\ \/ /\ users[req[p].user] # NoUser
          /\ users' = [users EXCEPT ![req[p].user].stripeCustomerId =
                                        StripeCustomerId(req[p].user)]
          /\ req' = Goto(p, "b_stripe")
       \/ /\ req' = Respond(p, 500, "Stripe")
          /\ UNCHANGED users
    /\ UNCHANGED <<db, docker, storage, mounts, arrived, stripe, limit, containerConfig, dirs, backups>>

\* stripe.paymentMethods.attach, stripe.customers.update,
\* stripe.subscriptions.create
SubscribeStripe(p) ==
    /\ req[p].pc = "b_stripe"
    /\ \/ /\ stripe' = [stripe EXCEPT ![req[p].user] = @ + 1]
          /\ req' = [req EXCEPT ![p].pc = "b_user",
                                ![p].sub = SubscriptionId(req[p].user,
                                                          stripe[req[p].user] + 1)]
       \/ /\ req' = Respond(p, 500, "Stripe")
          /\ UNCHANGED stripe
    /\ UNCHANGED <<db, docker, storage, mounts, arrived, users, limit, containerConfig, dirs, backups>>

\* prisma.user.update({ stripeSubscriptionId, subscriptionStatus: 'ACTIVE' });
\* prisma.subscription.create and the activity log follow at "log"
SubscribeUserUpdate(p) ==
    /\ req[p].pc = "b_user"
    /\ \/ /\ users[req[p].user] # NoUser
          /\ users' = [users EXCEPT ![req[p].user].stripeSubscriptionId = req[p].sub,
                                    ![req[p].user].subscriptionStatus = "ACTIVE"]
          /\ req' = Goto(p, "log")
       \/ /\ req' = Respond(p, 500, "Datastore")
          /\ UNCHANGED users
    /\ UNCHANGED <<db, docker, storage, mounts, arrived, stripe, limit, containerConfig, dirs, backups>>

\* ------------------------------------------------ POST /stripe (webhooks)
\* the subscriptions Stripe sends events about
Issued(u, i) == i \in 1..stripe[u]

\* customer.subscription.deleted: findFirst({ stripeSubscriptionId },
\* include containers); no such user is an exception, answered 500
SubscriptionDeletedFind(p, u, i) ==
    /\ Arrives(p)
    /\ Issued(u, i)
    /\ arrived' = arrived + 1
    /\ LET r == Arrival(p, "subscriptionDeleted", u) IN
       \/ /\ users[u].stripeSubscriptionId = SubscriptionId(u, i)
          /\ req' = [req EXCEPT ![p] =
                     [r EXCEPT !.pc = "sd_user", !.sub = SubscriptionId(u, i),
                               !.todo = RowsOfUser(u)]]
       \/ /\ users[u].stripeSubscriptionId # SubscriptionId(u, i)
          /\ req' = Reject(p, "subscriptionDeleted", u, 500, "UserNotFound")
       \/ req' = Reject(p, "subscriptionDeleted", u, 500, "Datastore")
    /\ UNCHANGED <<db, docker, storage, mounts, users, stripe, limit, containerConfig, dirs, backups>>

\* the answer of the webhook route after its handler returned
Received(p) == Respond(p, 200, Null)

\* prisma.user.update({ subscriptionStatus: 'CANCELED', stripeSubscriptionId:
\* null }), then prisma.subscription.updateMany
SubscriptionDeletedUser(p) ==
    /\ req[p].pc = "sd_user"
    /\ \/ /\ users[req[p].user] # NoUser
          /\ users' = [users EXCEPT ![req[p].user].subscriptionStatus = "CANCELED",
                                    ![req[p].user].stripeSubscriptionId = NoId]
          /\ req' = IF req[p].todo = {} THEN Received(p) ELSE Goto(p, "sd_update")
       \/ /\ req' = Respond(p, 500, "Datastore")
          /\ UNCHANGED users
    /\ UNCHANGED <<db, docker, storage, mounts, arrived, stripe, limit, containerConfig, dirs, backups>>

\* for (const container of user.containers): prisma.container.update({ status:
\* 'SUSPENDED' }); no runtime call, and a rejection ends the handler
SubscriptionDeletedUpdate(p) ==
    /\ req[p].pc = "sd_update"
    /\ \E n \in req[p].todo :
        \/ /\ db[n] # NoRec
           /\ db' = [db EXCEPT ![n].status = "SUSPENDED"]
           /\ req' = IF req[p].todo = {n} THEN Received(p)
                     ELSE [req EXCEPT ![p].todo = req[p].todo \ {n}]
        \/ /\ req' = Respond(p, 500, "Datastore")
           /\ UNCHANGED db
    /\ UNCHANGED <<docker, storage, mounts, arrived, users, stripe, limit, containerConfig, dirs, backups>>

\* mapStripeStatusToPrisma of the statuses an updated subscription carries
UpdatedStatus == {"ACTIVE", "PAST_DUE"}

\* customer.subscription.updated: findFirst({ stripeSubscriptionId })
SubscriptionUpdatedFind(p, u, i, st) ==
    /\ Arrives(p)
    /\ Issued(u, i)
    /\ arrived' = arrived + 1
    /\ LET r == Arrival(p, "subscriptionUpdated", u) IN
       \/ /\ users[u].stripeSubscriptionId = SubscriptionId(u, i)
          /\ req' = [req EXCEPT ![p] =
                     [r EXCEPT !.pc = "su_user", !.sub = SubscriptionId(u, i),
                               !.status = st]]
       \/ /\ users[u].stripeSubscriptionId # SubscriptionId(u, i)
          /\ req' = Reject(p, "subscriptionUpdated", u, 500, "UserNotFound")
       \/ req' = Reject(p, "subscriptionUpdated", u, 500, "Datastore")
    /\ UNCHANGED <<db, docker, storage, mounts, users, stripe, limit, containerConfig, dirs, backups>>

\* prisma.user.update({ subscriptionStatus: status }), then
\* prisma.subscription.updateMany; the containers are not touched
SubscriptionUpdatedUser(p) ==
    /\ req[p].pc = "su_user"
    /\ \/ /\ users[req[p].user] # NoUser
          /\ users' = [users EXCEPT ![req[p].user].subscriptionStatus = req[p].status]
          /\ req' = Received(p)
       \/ /\ req' = Respond(p, 500, "Datastore")
          /\ UNCHANGED users
    /\ UNCHANGED <<db, docker, storage, mounts, arrived, stripe, limit, containerConfig, dirs, backups>>

\* customer.subscription.created: stripe.customers.retrieve, then
\* findFirst({ stripeCustomerId })
SubscriptionCreatedFind(p, u, i) ==
    /\ Arrives(p)
    /\ Issued(u, i)
    /\ arrived' = arrived + 1
    /\ LET r == Arrival(p, "subscriptionCreated", u) IN
       \/ /\ users[u].stripeCustomerId = StripeCustomerId(u)
          /\ req' = [req EXCEPT ![p] =
                     [r EXCEPT !.pc = "sc_user", !.sub = SubscriptionId(u, i)]]
       \/ /\ users[u].stripeCustomerId # StripeCustomerId(u)
          /\ req' = Reject(p, "subscriptionCreated", u, 500, "UserNotFound")
       \/ req' = Reject(p, "subscriptionCreated", u, 500, "Stripe")
    /\ UNCHANGED <<db, docker, storage, mounts, users, stripe, limit, containerConfig, dirs, backups>>

\* prisma.user.update({ stripeSubscriptionId, subscriptionStatus: 'ACTIVE' }),
\* then prisma.subscription.upsert; the containers are not touched
SubscriptionCreatedUser(p) ==
    /\ req[p].pc = "sc_user"
    /\ \/ /\ users[req[p].user] # NoUser
          /\ users' = [users EXCEPT ![req[p].user].stripeSubscriptionId = req[p].sub,
                                    ![req[p].user].subscriptionStatus = "ACTIVE"]
          /\ req' = Received(p)
       \/ /\ req' = Respond(p, 500, "Datastore")
          /\ UNCHANGED users
    /\ UNCHANGED <<db, docker, storage, mounts, arrived, stripe, limit, containerConfig, dirs, backups>>

\* ------------------------------------- POST /clerk (webhooks): user.deleted
\* findFirst({ clerkId }, include containers); without a user the handler
\* returns at once
UserDeletedFind(p, u) ==
    /\ Arrives(p)
    /\ arrived' = arrived + 1
    /\ LET r == Arrival(p, "userDeleted", u) IN
       \/ /\ users[u] # NoUser
          /\ req' = [req EXCEPT ![p] =
                     [r EXCEPT !.pc = IF RowsOfUser(u) = {} THEN "d_user" ELSE "d_stop",
                               !.todo = RowsOfUser(u)]]
       \/ /\ users[u] = NoUser
          /\ req' = Reject(p, "userDeleted", u, 200, Null)
       \/ req' = Reject(p, "userDeleted", u, 500, "Datastore")
    /\ UNCHANGED <<db, docker, storage, mounts, users, stripe, limit, containerConfig, dirs, backups>>

\* after the clean-up of one container, finished or abandoned at a rejection:
\* the next container of the loop, or the user update
AfterCleanup(p, rest) ==
    [req EXCEPT ![p].pc = IF rest = {} THEN "d_user" ELSE "d_stop",
                ![p].todo = rest, ![p].container = NoContainer]

\* removeContainer: container.stop() in its own try, a rejection is ignored
RemoveStop(p) ==
    /\ req[p].pc = "d_stop"
    /\ \E n \in req[p].todo :
        /\ req' = [req EXCEPT ![p].pc = "d_remove", ![p].container = n]
        /\ \/ /\ CanStop(n)
              /\ docker' = [docker EXCEPT ![n] = "exited"]
           \/ UNCHANGED docker
    /\ UNCHANGED <<db, storage, mounts, arrived, users, stripe, limit, containerConfig, dirs, backups>>

\* container.remove({ force: true }): 404 without the container; the
\* rejection is rethrown into the catch of the handler's loop
CanRemove(n) == docker[n] # "absent"

\* the handler's reaction to a rejected removeContainer: the catch around
\* removeContainer and deleteCustomerStorage, then the next container
RemoveRejected(p) == AfterCleanup(p, req[p].todo \ {req[p].container})

RemoveRemove(p) ==
    /\ req[p].pc = "d_remove"
    /\ LET n == req[p].container IN
       \/ /\ CanRemove(n)
          /\ docker' = [docker EXCEPT ![n] = "absent"]
          /\ containerConfig' = [containerConfig EXCEPT ![n] = NoConfig]
          /\ req' = Goto(p, "d_storage")
       \/ /\ req' = RemoveRejected(p)
          /\ UNCHANGED <<docker, containerConfig>>
    /\ UNCHANGED <<db, storage, mounts, arrived, users, stripe, limit, dirs, backups>>

\* hetznerService.deleteCustomerStorage(user.id): rm -rf over ssh
UserDeletedStorage(p) ==
    /\ req[p].pc = "d_storage"
    /\ req' = AfterCleanup(p, req[p].todo \ {req[p].container})
    /\ \/ storage' = storage \ {req[p].user}
       \/ UNCHANGED storage
    /\ UNCHANGED <<db, docker, mounts, arrived, users, stripe, limit, containerConfig, dirs, backups>>

\* stripe.subscriptions.cancel in its own try, then the soft delete:
\* prisma.user.update({ subscriptionStatus: 'CANCELED' }); the container rows stay
UserDeletedUpdate(p) ==
    /\ req[p].pc = "d_user"
    /\ \/ /\ users[req[p].user] # NoUser
          /\ users' = [users EXCEPT ![req[p].user].subscriptionStatus = "CANCELED"]
          /\ req' = Received(p)
       \/ /\ req' = Respond(p, 500, "Datastore")
          /\ UNCHANGED users
    /\ UNCHANGED <<db, docker, storage, mounts, arrived, stripe, limit, containerConfig, dirs, backups>>

\* --------------- POST /clerk of the router without signature check: user.deleted
\* findUnique({ clerkId }), then prisma.activityLog.create
CascadeFind(p, u) ==
    /\ Arrives(p)
    /\ arrived' = arrived + 1
    /\ LET r == Arrival(p, "userDeletedCascade", u) IN
       \/ /\ users[u] # NoUser
          /\ req' = [req EXCEPT ![p] = [r EXCEPT !.pc = "x_delete"]]
       \/ /\ users[u] = NoUser
          /\ req' = Reject(p, "userDeletedCascade", u, 200, Null)
       \/ req' = Reject(p, "userDeletedCascade", u, 500, "Datastore")
    /\ UNCHANGED <<db, docker, storage, mounts, users, stripe, limit, containerConfig, dirs, backups>>

\* prisma.user.delete({ clerkId }): onDelete: Cascade removes the user's
\* container rows with it; no runtime or storage call
CascadeDelete(p) ==
    /\ req[p].pc = "x_delete"
    /\ \/ /\ users[req[p].user] # NoUser
          /\ users' = [users EXCEPT ![req[p].user] = NoUser]
          /\ db' = [n \in Names |->
                       IF db[n].userId = req[p].user THEN NoRec ELSE db[n]]
          /\ req' = Received(p)
       \/ /\ req' = Respond(p, 500, "Datastore")
          /\ UNCHANGED <<db, users>>
    /\ UNCHANGED <<docker, storage, mounts, arrived, stripe, limit, containerConfig, dirs, backups>>

\* ------------------------------------------ cleanup-customer.sh <user> <name>
\* exit 0 with the JSON summary
Exit0(p) == Respond(p, 0, Null)

\* docker ps -a | grep "^name$": the container exists, or the script goes on
\* to the storage; a failing docker ps reads as no container
CleanupStart(p, u, n) ==
    /\ Arrives(p)
    /\ arrived' = arrived + 1
    /\ LET r == [Arrival(p, "cleanup", u) EXCEPT !.container = n] IN
       \/ /\ docker[n] # "absent"
          /\ req' = [req EXCEPT ![p] = [r EXCEPT !.pc = "k_stop"]]
       \/ req' = [req EXCEPT ![p] = [r EXCEPT !.pc = "k_backup"]]
    /\ UNCHANGED <<db, docker, storage, mounts, users, stripe, limit, containerConfig, dirs, backups>>

\* docker stop "$CONTAINER_NAME" || true
CleanupStop(p) ==
    /\ req[p].pc = "k_stop"
    /\ req' = Goto(p, "k_rm")
    /\ \/ /\ CanStop(req[p].container)
          /\ docker' = [docker EXCEPT ![req[p].container] = "exited"]
       \/ UNCHANGED docker
    /\ UNCHANGED <<db, storage, mounts, arrived, users, stripe, limit, containerConfig, dirs, backups>>

\* docker rm "$CONTAINER_NAME" || true: without --force a running container
\* is not removed
CleanupRm(p) ==
    /\ req[p].pc = "k_rm"
    /\ req' = Goto(p, "k_backup")
    /\ LET n == req[p].container IN
       \/ /\ docker[n] \in {"created", "exited"}
          /\ docker' = [docker EXCEPT ![n] = "absent"]
          /\ containerConfig' = [containerConfig EXCEPT ![n] = NoConfig]
       \/ UNCHANGED <<docker, containerConfig>>
    /\ UNCHANGED <<db, storage, mounts, arrived, users, stripe, limit, dirs, backups>>

\* [[ -d "$STORAGE_PATH" ]], mkdir -p "$BACKUP_PATH" (set -e ends the script
\* when it fails), then tar -czf ... || { log "Warning: Backup creation failed" }
CleanupBackup(p) ==
    /\ req[p].pc = "k_backup"
    /\ \/ /\ req[p].user \notin dirs
          /\ req' = Exit0(p)
          /\ UNCHANGED backups
       \/ /\ req[p].user \in dirs
          /\ req' = Respond(p, 1, "Mkdir")
          /\ UNCHANGED backups
       \/ /\ req[p].user \in dirs
          /\ req' = Goto(p, "k_remove")
          /\ backups' = backups \cup {req[p].user}
       \/ /\ req[p].user \in dirs
          /\ req' = Goto(p, "k_remove")
          /\ UNCHANGED backups
    /\ UNCHANGED <<db, docker, storage, mounts, arrived, users, stripe, limit, containerConfig, dirs>>

\* rm -rf "$STORAGE_PATH" || { log "Warning: ..." }, then the at job, docker
\* image prune and the JSON summary
CleanupRemove(p) ==
    /\ req[p].pc = "k_remove"
    /\ req' = Exit0(p)
    /\ \/ dirs' = dirs \ {req[p].user}
       \/ UNCHANGED dirs
    /\ UNCHANGED <<db, docker, storage, mounts, arrived, users, stripe, limit, containerConfig, backups>>

\* the mediaServerType of the requests of Spec and AccountSpec
Types == {"JELLYFIN"}

Next ==
    \E p \in Procs :
        \/ \E u \in Customers, s \in Slugs, t \in Types : CreateCheckUser(p, u, s, t)
        \/ CreateCheckSlug(p)
        \/ CreateStorageStep(p)
        \/ CreateMountStep(p)
        \/ CreateDbCreate(p)
        \/ CreateDockerCreate(p)
        \/ CreateDockerStart(p)
        \/ CreateDockerInspect(p)
        \/ CreateUpdateRunning(p)
        \/ CreateLog(p)
        \/ CreateUpdateError(p)
        \/ \E k \in {"start", "stop", "restart", "status", "logs"},
              u \in Customers, n \in Names :
              Find(p, k, u, n)
        \/ GetStatus(p)
        \/ GetUsage(p)
        \/ GetLogs(p)
        \/ StartDocker(p)
        \/ StopDocker(p)
        \/ RestartStop(p)
        \/ RestartStart(p)
        \/ UpdateStatus(p)
        \/ Log(p)
        \/ \E u \in Customers : SuspendFind(p, u)
        \/ SuspendStop(p)
        \/ SuspendUpdate(p)
        \/ SuspendUserUpdate(p)

Spec == Init /\ [][Next]_vars

\* ------------ one customer's requests, with the billing route and the webhooks
\* the customer and the subdomain of the requests and events
Billed == {"c1"}
BilledSlugs == {"movies"}

AccountInit == Started /\ limit = MaxEvents

AccountNext ==
    \E p \in Procs :
        \/ \E u \in Billed, s \in BilledSlugs, t \in Types :
              CreateCheckUser(p, u, s, t)
        \/ CreateCheckSlug(p)
        \/ CreateStorageStep(p)
        \/ CreateMountStep(p)
        \/ CreateDbCreate(p)
        \/ CreateDockerCreate(p)
        \/ CreateDockerStart(p)
        \/ CreateDockerInspect(p)
        \/ CreateUpdateRunning(p)
        \/ CreateLog(p)
        \/ CreateUpdateError(p)
        \/ \E k \in {"start", "stop"}, u \in Billed, s \in BilledSlugs :
              Find(p, k, u, ContainerName(u, s))
        \/ StartDocker(p)
        \/ StopDocker(p)
        \/ UpdateStatus(p)
        \/ Log(p)
        \/ \E u \in Billed : SuspendFind(p, u)
        \/ SuspendStop(p)
        \/ SuspendUpdate(p)
        \/ SuspendUserUpdate(p)
        \/ \E u \in Billed : SubscribeFind(p, u)
        \/ SubscribeCustomer(p)
        \/ SubscribeStripe(p)
        \/ SubscribeUserUpdate(p)
        \/ \E u \in Billed, i \in 1..MaxEvents : SubscriptionDeletedFind(p, u, i)
        \/ SubscriptionDeletedUser(p)
        \/ SubscriptionDeletedUpdate(p)
        \/ \E u \in Billed, i \in 1..MaxEvents, st \in UpdatedStatus :
              SubscriptionUpdatedFind(p, u, i, st)
        \/ SubscriptionUpdatedUser(p)
        \/ \E u \in Billed, i \in 1..MaxEvents : SubscriptionCreatedFind(p, u, i)
        \/ SubscriptionCreatedUser(p)
        \/ \E u \in Billed : UserDeletedFind(p, u)
        \/ RemoveStop(p)
        \/ RemoveRemove(p)
        \/ UserDeletedStorage(p)
        \/ UserDeletedUpdate(p)
        \/ \E u \in Billed : CascadeFind(p, u)
        \/ CascadeDelete(p)

AccountSpec == AccountInit /\ [][AccountNext]_vars

\* ---------- one customer's creates of every media server type, and the
\* cleanup script
ProvisionNext ==
    \E p \in Procs :
        \/ \E u \in Billed, s \in BilledSlugs, t \in RequestedTypes :
              CreateCheckUser(p, u, s, t)
        \/ CreateCheckSlug(p)
        \/ CreateStorageStep(p)
        \/ CreateMountStep(p)
        \/ CreateDbCreate(p)
        \/ CreateDockerCreate(p)
        \/ CreateDockerStart(p)
        \/ CreateDockerInspect(p)
        \/ CreateUpdateRunning(p)
        \/ CreateLog(p)
        \/ CreateUpdateError(p)
        \/ \E u \in Billed, s \in BilledSlugs : CleanupStart(p, u, ContainerName(u, s))
        \/ CleanupStop(p)
        \/ CleanupRm(p)
        \/ CleanupBackup(p)
        \/ CleanupRemove(p)

ProvisionSpec == Init /\ [][ProvisionNext]_vars

\* ------------------------------------------------------------- properties
TypeOK ==
    /\ \A n \in Names : db[n] = NoRec \/ db[n].status \in ContainerStatus
    /\ \A n \in Names : docker[n] \in {"absent", "created", "running", "exited"}
    /\ storage \subseteq Customers
    /\ \A u \in Customers : mounts[u] \in 0..limit
    /\ arrived \in 0..limit
    /\ \A u \in Customers :
          users[u] = NoUser \/ users[u].subscriptionStatus \in SubscriptionStatus
    /\ \A u \in Customers : stripe[u] \in 0..limit
    /\ \A n \in Names :
          containerConfig[n] = NoConfig
          \/ containerConfig[n].Image \in {ImageMap(t) : t \in MediaServerTypes}
    /\ dirs \subseteq Customers
    /\ backups \subseteq Customers

\* the customer whose instance a request in flight works on
CustomerOf(q) ==
    IF req[q].kind = "restart" THEN db[req[q].container].userId ELSE req[q].user

\* a request between its first step and its last status write
InWindow(q) == req[q].pc \notin {"idle", "done", "log", "u_user"}

\* request p takes a step
Acts(p) == req'[p] # req[p]

\* C1: two lifecycle requests for the same customer never interleave: no
\* runtime call, storage call or status write of one request happens while
\* the other is between its first step and its status write.
C1Serialized ==
    [][\A p, q \in Procs :
          (p # q /\ InWindow(p) /\ InWindow(q) /\ CustomerOf(p) = CustomerOf(q)
             /\ Acts(p))
          => UNCHANGED <<db, docker, storage, mounts>>]_vars

\* C2: the datastore holds at most one container record per customer (the
\* schema has no terminal status: every row is a non-terminal instance).
C2SingleInstance == \A u \in Customers : Cardinality(RowsOfUser(u)) <= 1

\* C3: within one create the CREATING record is persisted before storage
\* allocation: a create that holds the result of createCustomerStorage has
\* already persisted its record.
C3CreatingBeforeStorage ==
    \A p \in Procs :
        (req[p].kind = "create" /\ req[p].storage # Null) => req[p].container # NoContainer

\* positions of the create handler inside createMediaServerContainer or after it
DockerPcs == {"c_dockerCreate", "c_dockerStart", "c_dockerInspect",
              "c_updateRunning", "c_log", "c_updateError"}

\* C4: a container comes into existence in the runtime only by the create step
\* of a request whose createCustomerStorage and mountCustomerStorage have both
\* succeeded, and a create whose storage or mount step failed never reaches the
\* runtime adapter.
C4ContainerAfterStorageAndMount ==
    [][/\ \A n \in Names :
            (docker[n] = "absent" /\ docker'[n] # "absent") =>
                \E p \in Procs :
                    /\ req[p].pc = "c_dockerCreate"
                    /\ ContainerName(req[p].user, req[p].slug) = n
                    /\ req[p].storage = req[p].user
                    /\ req[p].mount = req[p].user
       /\ \A p \in Procs :
            req'[p].pc \in DockerPcs =>
                req'[p].storage # Null /\ req'[p].mount # Null]_vars

\* C4 witness: one create has had its container created after its storage and
\* mount succeeded, while another create has failed at its storage or mount
\* step and its customer has no container.
C4Witness ==
    \E p, q \in Procs :
        /\ req[p].pc = "c_dockerStart"
        /\ docker[ContainerName(req[p].user, req[p].slug)] = "created"
        /\ req[p].storage # Null /\ req[p].mount # Null
        /\ req[q].pc = "done" /\ req[q].kind = "create"
        /\ req[q].err \in {"Storage", "StorageCommand", "Mount"}
        /\ \A s \in Slugs : docker[ContainerName(req[q].user, s)] = "absent"

\* a create responds after a failure of one of its steps
CreateFailsAt(p) ==
    /\ req[p].kind = "create" /\ req[p].pc # "done" /\ req'[p].pc = "done"
    /\ req'[p].err \in {"Storage", "StorageCommand", "Mount", "ImagePull",
                        "RuntimeCreate", "RuntimeStart", "RuntimeInspect"}

\* C5: when a step of a create sequence fails (storage, mount, container
\* create or start), the customer's persisted status is ERROR when the
\* request returns.
C5FailureLeavesError ==
    [][\A p \in Procs :
          CreateFailsAt(p) =>
              \E n \in Names : db'[n].userId = req[p].user /\ db'[n].status = "ERROR"]_vars

\* C6: a create request of a customer whose only record is in ERROR is
\* accepted, not answered with 409.
C6RetryFromErrorAccepted ==
    [][\A p \in Procs, u \in Customers :
          (/\ Acts(p) /\ arrived' = arrived + 1
           /\ req'[p].kind = "create" /\ req'[p].user = u
           /\ RowsOfUser(u) # {}
           /\ \A n \in RowsOfUser(u) : db[n].status = "ERROR")
          => ~(req'[p].pc = "done" /\ req'[p].resp = 409)]_vars

\* C7: a create whose record insertion hits the uniqueness constraint answers
\* 409 Conflict.
C7UniqueViolationIsConflict ==
    [][\A p \in Procs :
          (/\ req[p].pc = "c_dbCreate"
           /\ UniqueViolation(req[p].user, req[p].slug)
           /\ req'[p].pc = "done")
          => req'[p].resp = 409]_vars

\* C8: a record has a dockerContainerId or an externalPort only while its
\* status is RUNNING.
C8RuntimeFieldsOnlyWhenRunning ==
    \A n \in Rows :
        (db[n].dockerContainerId # Null \/ db[n].externalPort # Null)
            => db[n].status = "RUNNING"

\* the transitions of the lifecycle state machine (to ERROR from any status)
AllowedTransitions ==
    {<<"CREATING", "RUNNING">>, <<"RUNNING", "STOPPED">>, <<"STOPPED", "RUNNING">>,
     <<"RUNNING", "SUSPENDED">>, <<"STOPPED", "SUSPENDED">>,
     <<"CREATING", "SUSPENDED">>, <<"SUSPENDED", "RUNNING">>}
    \cup {<<s, "ERROR">> : s \in ContainerStatus}

\* C9: every change of a record's persisted status is an allowed transition.
C9OnlyAllowedTransitions ==
    [][\A n \in Names :
          (db[n] # NoRec /\ db'[n] # NoRec /\ db'[n].status # db[n].status)
          => <<db[n].status, db'[n].status>> \in AllowedTransitions]_vars

\* a create sequence in progress, from its first step to its response
CreateInProgress(p) == req[p].kind = "create" /\ req[p].pc \notin {"idle", "done"}

\* request q was received after request p, which is still in flight
ArrivedDuring(q, p) == Free(q) \/ req[q].seq > req[p].seq

\* C10: while a create sequence is in progress for a customer, a create, start
\* or stop request received for that customer changes neither the records nor
\* the runtime, and its answer is 409 (or the 500 of a datastore outage).
C10RejectedDuringCreate ==
    [][\A p, q \in Procs :
          (/\ p # q /\ CreateInProgress(p) /\ Acts(q) /\ ArrivedDuring(q, p)
           /\ req'[q].kind \in {"create", "start", "stop"}
           /\ req'[q].user = req[p].user)
          => /\ UNCHANGED <<db, docker, storage, mounts>>
             /\ req'[q].pc = "done" =>
                    (req'[q].resp = 409 \/ req'[q].err = "Datastore")]_vars

\* C11: in the delete sequence of the user.deleted handler, whatever the
\* outcome of the container-remove step, the next step is the deletion of the
\* remote storage for the same container.
C11TeardownGoesOn ==
    [][\A p \in Procs :
          (req[p].pc = "d_remove" /\ Acts(p))
          => (req'[p].pc = "d_storage" /\ req'[p].container = req[p].container)]_vars

\* C12: a container record is removed from the datastore only by a
\* user.deleted request that has been through the teardown loop for the
\* record's customer.
C12RecordRemovedAfterTeardown ==
    [][\A n \in Names :
          (db[n] # NoRec /\ db'[n] = NoRec)
          => \E p \in Procs :
                /\ Acts(p)
                /\ req[p].kind = "userDeleted" /\ req[p].pc = "d_user"
                /\ req[p].user = db[n].userId]_vars

\* C13: when the handler of a cancelled subscription answers success and the
\* customer's instance was RUNNING at its last step, the record is gone, the
\* container is removed, the mount unbound and the remote storage deleted.
C13CancelledDeletesInstance ==
    [][\A p \in Procs, n \in Names :
          (/\ req[p].kind = "subscriptionDeleted" /\ n \in req[p].todo
           /\ db[n].status = "RUNNING" /\ docker[n] = "running"
           /\ req'[p].pc = "done" /\ req'[p].resp = 200)
          => /\ db'[n] = NoRec
             /\ docker'[n] = "absent"
             /\ mounts'[req[p].user] = 0
             /\ req[p].user \notin storage']_vars

\* C14: a cancelled event delivered again, after its first delivery was
\* answered with success and left the customer cancelled, changes no state
\* and is answered with success (or the 500 of a datastore outage).
C14RedeliveryIsNoOp ==
    [][\A p, q \in Procs, u \in Customers :
          (/\ p # q /\ req[q].pc = "done" /\ req[q].kind = "subscriptionDeleted"
           /\ req[q].user = u /\ req[q].resp = 200
           /\ stripe[u] = 1
           /\ users[u].subscriptionStatus = "CANCELED"
           /\ users[u].stripeSubscriptionId = NoId
           /\ Acts(p) /\ arrived' = arrived + 1
           /\ req'[p].kind = "subscriptionDeleted" /\ req'[p].user = u)
          => /\ UNCHANGED <<db, docker, storage, mounts, users>>
             /\ req'[p].pc = "done"
             /\ req'[p].resp = 200 \/ req'[p].err = "Datastore"]_vars

\* the event handlers of an activated and of a resumed subscription
Resuming(p) ==
    \/ req[p].kind = "subscriptionCreated"
    \/ req[p].kind = "subscriptionUpdated" /\ req[p].status = "ACTIVE"

\* C15: when the handler of an activated or resumed subscription answers
\* success, every instance of the customer that was SUSPENDED has its
\* container running and its status RUNNING.
C15ResumeStartsContainer ==
    [][\A p \in Procs, n \in Names :
          (/\ Resuming(p) /\ req'[p].pc = "done" /\ req'[p].resp = 200
           /\ db[n].userId = req[p].user /\ db[n].status = "SUSPENDED")
          => (db'[n].status = "RUNNING" /\ docker'[n] = "running")]_vars

\* C16: in the admin suspend, whatever the outcome of the runtime stop for a
\* container, the next step is the SUSPENDED write for that container.
C16SuspendedDespiteStopFailure ==
    [][\A p \in Procs :
          (req[p].pc = "u_stop" /\ Acts(p)) => req'[p].pc = "u_update"]_vars

\* C17: a record whose container is running is set to SUSPENDED only by a
\* request that has invoked the runtime stop for that container.
C17StopBeforeSuspended ==
    [][\A n \in Names :
          (/\ db[n] # NoRec /\ db'[n] # NoRec
           /\ db[n].status # "SUSPENDED" /\ db'[n].status = "SUSPENDED"
           /\ docker[n] = "running")
          => \E p \in Procs : req[p].pc = "u_update" /\ req[p].container = n]_vars

\* C18: a stop request whose container is already stopped has its runtime call
\* accepted: its next step is the STOPPED write.
C18StopIdempotent ==
    [][\A p \in Procs :
          (/\ req[p].kind = "stop" /\ req[p].pc = "docker"
           /\ docker[req[p].container] = "exited" /\ Acts(p))
          => req'[p].pc = "update"]_vars

\* C19: mounting for a customer whose local path is bound already succeeds
\* and leaves the mounts as they are.
C19MountIdempotent ==
    [][\A p \in Procs :
          (req[p].pc = "c_mount" /\ mounts[req[p].user] > 0 /\ Acts(p))
          => (req'[p].pc = "c_dbCreate" /\ mounts' = mounts)]_vars

\* C20: createCustomerStorage for a customer whose remote directory exists
\* already is not rejected by the command, leaves the remote directories as
\* they are and returns the paths every other call for that customer returned.
C20CreateStorageIdempotent ==
    [][\A p \in Procs :
          (req[p].pc = "c_storage" /\ req[p].user \in storage /\ Acts(p))
          => /\ req'[p].err # "StorageCommand"
             /\ req'[p].pc = "c_mount" =>
                  /\ storage' = storage
                  /\ \A q \in Procs :
                       (req[q].user = req[p].user /\ req[q].storage # Null)
                       => req'[p].storage = req[q].storage]_vars

\* C20 witness: a create has failed at its mount step, and another create of
\* the same customer has run createCustomerStorage again and holds its result.
C20Witness ==
    \E p, q \in Procs :
        /\ req[q].pc = "done" /\ req[q].kind = "create" /\ req[q].err = "Mount"
        /\ req[p].kind = "create" /\ req[p].user = req[q].user
        /\ req[p].pc = "c_mount" /\ req[p].storage = req[p].user
        /\ req[p].user \in storage

\* C21: the usage step of a status request never fails the request: the
\* answer is 200, with a usage of zero bytes when the size command fails.
C21UsageNeverFails ==
    [][\A p \in Procs :
          (req[p].pc = "g_usage" /\ Acts(p))
          => /\ req'[p].pc = "done" /\ req'[p].resp = 200
             /\ req'[p].usedBytes \in DirSizes \cup {0}
             /\ DuExit(req[p].user) # 0 => req'[p].usedBytes = 0]_vars

\* C21 witness: a status request was answered 200 with a usage of zero bytes.
C21Witness ==
    \E p \in Procs :
        /\ req[p].pc = "done" /\ req[p].kind = "status"
        /\ req[p].resp = 200 /\ req[p].usedBytes = 0

\* C22: the container a create makes publishes the internal port of its own
\* media server type, on a host port the runtime chooses.
C22PublishesOwnPort ==
    [][\A p \in Procs :
          (req[p].pc = "c_dockerCreate" /\ req'[p].pc = "c_dockerStart")
          => LET n == ContainerName(req[p].user, req[p].slug) IN
             /\ containerConfig'[n].ExposedPort = InternalPort(req[p].type)
             /\ containerConfig'[n].HostPort = AutoAssign]_vars

\* request slot p takes a new request in this step
Arriving(p) ==
    /\ arrived' = arrived + 1
    /\ Free(p)
    /\ \/ req'[p].pc # req[p].pc \/ req'[p].kind # req[p].kind
       \/ req'[p].user # req[p].user \/ req'[p].resp # req[p].resp
       \/ req'[p].type # req[p].type \/ req'[p].container # req[p].container

\* C23: a create whose mediaServerType is none of the three types is answered
\* 400 at once, before any storage, mount, runtime or datastore write, and
\* every container of the runtime has one of the three images.
C23InvalidTypeRejected ==
    [][/\ \A p \in Procs :
            (Arriving(p) /\ req'[p].kind = "create"
               /\ req'[p].type \notin MediaServerTypes \cup {Null})
            => /\ req'[p].pc = "done" /\ req'[p].resp = 400
               /\ UNCHANGED <<db, docker, storage, mounts, dirs, containerConfig>>
       /\ \A p \in Procs :
            (req'[p].kind = "create" /\ req'[p].pc \notin {"idle", "done"})
            => req'[p].type \in MediaServerTypes
       /\ \A n \in Names :
            containerConfig'[n] = NoConfig
            \/ containerConfig'[n].Image \in {ImageMap(t) : t \in MediaServerTypes}]_vars

\* C23 witness: a create with a type outside the three was answered 400, and
\* a container with one of the three images exists.
C23Witness ==
    /\ \E p \in Procs :
        /\ req[p].pc = "done" /\ req[p].kind = "create"
        /\ req[p].resp = 400 /\ req[p].type = "KODI"
    /\ \E n \in Names : containerConfig[n] # NoConfig

\* the requests of a customer, as opposed to the admin's and the webhooks'
CustomerKinds == {"create", "start", "stop", "status", "logs", "subscribe"}

\* C24: no answer to a customer's request carries the text of an error of the
\* container runtime or of the storage host.
C24NoRawErrorText ==
    \A p \in Procs :
        (req[p].pc = "done" /\ req[p].kind \in CustomerKinds) => req[p].details = Null

\* C25: getContainerStatus gives null exactly when the runtime has no
\* container of that name.
C25NullIffAbsent ==
    [][\A p \in Procs :
          (req[p].pc = "g_status" /\ Acts(p))
          => (req'[p].liveStatus = Null <=> docker[req[p].container] = "absent")]_vars

\* C26: a rejected storage call of a create does not end the create: the
\* call is made again (the handlers keep no count of attempts, so every
\* rejection is a first one).
C26TransientFailureRetried ==
    [][\A p \in Procs :
          (req[p].pc = "c_storage" /\ Acts(p))
          => req'[p].pc \in {"c_storage", "c_mount"}]_vars

\* C27: when a create returns, the container of its name exists in the
\* runtime only behind a RUNNING record, and a RUNNING record has its
\* container running.
C27ContainerIffRunning ==
    [][\A p \in Procs :
          (/\ req[p].kind = "create" /\ req[p].pc \notin {"idle", "done"}
           /\ req'[p].pc = "done")
          => LET n == ContainerName(req[p].user, req[p].slug) IN
             /\ docker'[n] # "absent" => db'[n].status = "RUNNING"
             /\ db'[n].status = "RUNNING" => docker'[n] = "running"]_vars

\* C28: a start or restart request whose record is SUSPENDED changes neither
\* the runtime nor the record.
C28SuspendedStaysSuspended ==
    [][\A p \in Procs :
          (/\ req[p].kind \in {"start", "restart"}
           /\ req[p].pc \in {"docker", "r_start", "update"}
           /\ db[req[p].container].status = "SUSPENDED"
           /\ Acts(p))
          => UNCHANGED <<db, docker>>]_vars

\* C29: a start, stop, status or logs request of customer u whose lookup
\* meets a record of another customer is answered 404 at once and changes
\* neither the runtime nor any record.
C29CrossCustomerNotFound ==
    [][\A p \in Procs, n \in Names :
          (/\ Arriving(p)
           /\ req'[p].kind \in {"start", "stop", "status", "logs"}
           /\ n = req'[p].container
           /\ db[n] # NoRec /\ db[n].userId # req'[p].user)
          => /\ req'[p].pc = "done" /\ req'[p].resp = 404
             /\ UNCHANGED <<db, docker, storage, mounts, containerConfig>>]_vars

\* C29 witness: a request for the container of another customer was answered
\* 404.
C29Witness ==
    \E p \in Procs :
        /\ req[p].pc = "done" /\ req[p].resp = 404
        /\ req[p].kind \in {"start", "stop", "status", "logs"}
        /\ \E n \in Names :
            /\ n = req[p].container
            /\ db[n] # NoRec /\ db[n].userId # req[p].user

\* C30: the cleanup script removes a customer's storage directory only when a
\* backup archive of it exists.
C30RemoveAfterBackup ==
    [][\A u \in Customers : (u \in dirs /\ u \notin dirs') => u \in backups]_vars
====
